---- MODULE Spec2Model ----
(***************************************************************************)
(* A model of the MGRS grid engine's dispatch and caching layer:          *)
(*   - WorkerPool            (src/src/utils/WorkerPool.ts)                *)
(*   - the worker's handler  (src/src/workers/mgrs.worker.ts)             *)
(*   - ViewportManager       (src/src/utils/viewportManager.ts)           *)
(*   - the zustand store     (src/unnamed/part_002, the revision with     *)
(*                            grids10km that ViewportManager calls)       *)
(*   - the self-caching layers Grid100kmLayer / Grid10kmLayer             *)
(*                           (src/unnamed/part_006, src/unnamed/part_008) *)
(* Handlers are written as operators from a world record to a world       *)
(* record, so that a handler that calls another (a result callback that   *)
(* re-runs update100kmSquares, which calls requestGenerate100km) is one   *)
(* atomic step, as it is on the single-threaded main context.             *)
(***************************************************************************)
EXTENDS Integers, Sequences, FiniteSets, TLC

VARIABLES
    pool,             \* WorkerPool: callback maps, nextWorkerIndex, workers
    queues,           \* per worker: the requests posted to it, oldest first
    vm,               \* ViewportManager: pendingGZDs, pending100kmSquares
    store,            \* useMGRSStore state
    layers,           \* Grid100kmLayer / Grid10kmLayer private caches
    currentViewport,  \* the viewport most recently handed over by deck.gl
    ev,               \* what the last step did (history only, never read by the code)
    call              \* the pure function under study: its input and what it returned

vars == <<pool, queues, vm, store, layers, currentViewport, ev, call>>

-----------------------------------------------------------------------------
(* Maps (JavaScript Map) as functions on the set of present keys.          *)

EmptyMap == [x \in {} |-> x]

MapHas(m, k) == k \in DOMAIN m

MapSet(m, k, v) == [x \in (DOMAIN m) \cup {k} |-> IF x = k THEN v ELSE m[x]]

MapDelete(m, k) == [x \in (DOMAIN m) \ {k} |-> m[x]]

-----------------------------------------------------------------------------
(* The world the engine runs in: root boundaries, what the generators      *)
(* return for them, and the viewports deck.gl can hand over.               *)

Ring(w, s, e, n) == << <<w, s>>, <<e, s>>, <<e, n>>, <<w, n>>, <<w, s>> >>

\* gzdData.features: GZD rectangles. 31N appears twice, which the code
\* skips through processedGZDs.
GzdFeatures ==
    << [gzd |-> "31N", zone |-> 31, band |-> "N", coordinates |-> <<Ring(0, 0, 6, 8)>>],
       [gzd |-> "32N", zone |-> 32, band |-> "N", coordinates |-> <<Ring(6, 0, 12, 8)>>],
       [gzd |-> "31N", zone |-> 31, band |-> "N", coordinates |-> <<Ring(0, 0, 6, 8)>>],
       [gzd |-> "5Q",  zone |-> 5,  band |-> "Q", coordinates |-> <<Ring(-156, 16, -150, 24)>>] >>

Square(id, squareId, gzd, ring) ==
    [id |-> id, squareId |-> squareId, gzd |-> gzd, coordinates |-> <<ring>>]

\* generate100kmSquaresForGZD returns one feature per polygonal piece of each
\* cell; the id is mgrs.forward's string, the gzd `${zone}${band}`.  32N stands
\* for a boundary that yields no feature, 5Q for a single-digit zone.
generate100kmSquaresForGZD(zone, band) ==
    CASE zone = 31 /\ band = "N" ->
            << Square("31NAA", "AA", "31N", Ring(0, 0, 3, 8)),
               Square("31NBA", "BA", "31N", Ring(3, 0, 6, 8)) >>
      [] zone = 5 /\ band = "Q" ->
            << Square("5QKB", "KB", "5Q", Ring(-156, 16, -150, 24)) >>
      [] OTHER -> << >>

\* generate10kmGridForSquare: the cells of one 100 km square; 31NBA stands for
\* a square that yields no cell.
generate10kmGridForSquare(squareId) ==
    CASE squareId = "31NAA" ->
            << Square("31NAA00", "AA", "31N", Ring(0, 0, 1, 1)) >>
      [] OTHER -> << >>

\* The characters of an id, for the controller's format check.
Chars(id) ==
    CASE id = "31NAA" -> <<"3", "1", "N", "A", "A">>
      [] id = "31NBA" -> <<"3", "1", "N", "B", "A">>
      [] id = "5QKB"  -> <<"5", "Q", "K", "B">>
      [] OTHER -> << >>

Digits == {"0", "1", "2", "3", "4", "5", "6", "7", "8", "9"}

UpperCase == {"A", "B", "C", "D", "E", "F", "G", "H", "I", "J", "K", "L", "M",
              "N", "O", "P", "Q", "R", "S", "T", "U", "V", "W", "X", "Y", "Z"}

DigitValue(d) ==
    CASE d = "0" -> 0 [] d = "1" -> 1 [] d = "2" -> 2 [] d = "3" -> 3 [] d = "4" -> 4
      [] d = "5" -> 5 [] d = "6" -> 6 [] d = "7" -> 7 [] d = "8" -> 8 [] d = "9" -> 9

\* parseInt(match[1], 10) of a two-digit match
parseInt(d1, d2) == 10 * DigitValue(d1) + DigitValue(d2)

\* squareId.match(/^(\d{2})([A-Z])/)
MatchZoneBand(id) ==
    LET c == Chars(id)
    IN  Len(c) >= 3 /\ c[1] \in Digits /\ c[2] \in Digits /\ c[3] \in UpperCase

\* band >= 'N' ? 'N' : 'S'
Hemisphere(band) ==
    IF band \in {"N", "O", "P", "Q", "R", "S", "T", "U", "V", "W", "X", "Y", "Z"}
    THEN "N" ELSE "S"

Viewport(zoom, west, south, east, north) ==
    [zoom |-> zoom, west |-> west, south |-> south, east |-> east, north |-> north]

\* The viewports deck.gl hands over: below the 100 km level, at the 100 km
\* level and at the 10 km level, over different parts of the world.
Viewports ==
    { Viewport(4, 1, 1, 2, 2),             \* zone level, inside 31NAA
      Viewport(5, 1, 1, 2, 2),             \* 100 km level, inside 31NAA
      Viewport(8, 2, 1, 7, 2),             \* 10 km level: 31NAA, 31NBA and 32N
      Viewport(8, -155, 17, -154, 18) }    \* 10 km level, inside 5Q

NoViewport == [zoom |-> -1, west |-> 0, south |-> 0, east |-> 0, north |-> 0]

-----------------------------------------------------------------------------
(* viewportUtils.ts                                                        *)

MinOf(S) == CHOOSE x \in S : \A y \in S : x <= y

MaxOf(S) == CHOOSE x \in S : \A y \in S : x >= y

bboxIntersects(coords, viewWest, viewSouth, viewEast, viewNorth) ==
    LET lons == { coords[r][i][1] : r \in DOMAIN coords, i \in 1..5 }
        lats == { coords[r][i][2] : r \in DOMAIN coords, i \in 1..5 }
    IN  ~ (  MaxOf(lons) < viewWest \/ MinOf(lons) > viewEast
          \/ MaxOf(lats) < viewSouth \/ MinOf(lats) > viewNorth )

-----------------------------------------------------------------------------
(* The history variable.                                                   *)

NoEvent ==
    [op |-> "init", key |-> "", outcome |-> "", hadCallback |-> FALSE,
     posted |-> << >>, invoked |-> << >>, stored |-> << >>, stale |-> FALSE,
     nFeatures |-> 0, threw |-> FALSE]

Event(op, key, outcome) ==
    [NoEvent EXCEPT !.op = op, !.key = key, !.outcome = outcome]

World ==
    [pool |-> pool, queues |-> queues, vm |-> vm, store |-> store,
     layers |-> layers, ev |-> NoEvent, threw |-> FALSE]

Commit(w) ==
    /\ pool' = w.pool
    /\ queues' = w.queues
    /\ vm' = w.vm
    /\ store' = w.store
    /\ layers' = w.layers
    /\ ev' = [w.ev EXCEPT !.threw = w.threw]
    /\ call' = call

Begin(op, key, outcome) == [World EXCEPT !.ev = Event(op, key, outcome)]

-----------------------------------------------------------------------------
(* The store (src/unnamed/part_002).                                       *)

setSquares100km(w, gzd, squares) ==
    [w EXCEPT !.store.squares100km = MapSet(@, gzd, squares),
              !.ev.stored = Append(@, [level |-> "100km", key |-> gzd])]

setGrids10km(w, squareId, grids) ==
    [w EXCEPT !.store.grids10km = MapSet(@, squareId, grids),
              !.ev.stored = Append(@, [level |-> "10km", key |-> squareId])]

\* A setter that replaces the visible list and forgets what was cached.
setVisibleAndForget(w, squares) ==
    [w EXCEPT !.store.visible100kmSquares = squares, !.store.grids10km = EmptyMap]

setVisible100kmSquares(w, squares) == [w EXCEPT !.store.visible100kmSquares = squares]

setVisible10kmGrids(w, grids) == [w EXCEPT !.store.visible10kmGrids = grids]

setViewportBounds(w, viewport) ==
    [w EXCEPT !.store.viewportBounds =
        <<[west |-> viewport.west, south |-> viewport.south,
           east |-> viewport.east, north |-> viewport.north]>>]

\* clearAll resets the store's maps and lists, and nothing outside the store.
clearAll(w) ==
    [w EXCEPT !.store.squares100km = EmptyMap,
              !.store.grids10km = EmptyMap,
              !.store.visible100kmSquares = << >>,
              !.store.visible10kmGrids = << >>,
              !.store.viewportBounds = << >>]

-----------------------------------------------------------------------------
(* WorkerPool (src/src/utils/WorkerPool.ts).                               *)

PoolSize == 4

\* (i + 1) % 0 in JavaScript
NaN == -1

\* A pool that hands every request to its first worker.
postToFirstWorker(w, message) ==
    IF w.pool.workers = 0
    THEN [w EXCEPT !.pool.nextWorkerIndex = NaN, !.threw = TRUE]
    ELSE [w EXCEPT !.queues[0] = Append(@, message),
                   !.ev.posted = Append(@, [type |-> message.type, key |-> message.key])]

\* getNextWorker followed by worker.postMessage.  With no worker left,
\* workers[nextWorkerIndex] is undefined, the index becomes NaN and the call
\* on undefined throws a TypeError.
postToNextWorker(w, message) ==
    IF w.pool.workers = 0
    THEN [w EXCEPT !.pool.nextWorkerIndex = NaN, !.threw = TRUE]
    ELSE LET i == w.pool.nextWorkerIndex
         IN  [w EXCEPT !.queues[i] = Append(@, message),
                       !.pool.nextWorkerIndex = (i + 1) % w.pool.workers,
                       !.ev.posted = Append(@, [type |-> message.type, key |-> message.key])]

requestGenerate100km(w, request, callback) ==
    postToNextWorker(
        [w EXCEPT !.pool.generate100kmCallbacks = MapSet(@, request.gzd, callback)],
        [type |-> "generate-100km", key |-> request.gzd, payload |-> request,
         preClear |-> FALSE])

\* hasOnError: whether the optional third argument was passed.
requestGenerate10km(w, request, callback, hasOnError, onError) ==
    LET w1 == [w EXCEPT !.pool.generate10kmCallbacks = MapSet(@, request.squareId, callback)]
        w2 == IF hasOnError
              THEN [w1 EXCEPT !.pool.generate10kmErrorCallbacks =
                                    MapSet(@, request.squareId, onError)]
              ELSE w1
    IN  postToNextWorker(w2,
            [type |-> "generate-10km", key |-> request.squareId, payload |-> request,
             preClear |-> FALSE])

terminate(w) ==
    [w EXCEPT !.pool.workers = 0,
              !.pool.generate100kmCallbacks = EmptyMap,
              !.pool.generate10kmCallbacks = EmptyMap,
              !.pool.generate10kmErrorCallbacks = EmptyMap,
              !.queues = [i \in DOMAIN @ |-> << >>]]

Callback(owner, viewport, key, id) ==
    [owner |-> owner, viewport |-> viewport, key |-> key, id |-> id]

-----------------------------------------------------------------------------
(* ViewportManager (src/src/utils/viewportManager.ts).                     *)

\* A controller that never finds a GZD in the cache.
hasCachedSquaresNever(w, gzdName) == FALSE

\* store.getSquares100km(gzdName) is truthy: an array, also an empty one.
hasCachedSquares(w, gzdName) == MapHas(w.store.squares100km, gzdName)

\* store.getGrids10km(squareId) is truthy.
hasCachedGrids(w, squareId) == MapHas(w.store.grids10km, squareId)

\* A controller that skips the pending check for GZDs.
notPendingGZDAlways(w, gzdName) == TRUE

notPendingGZD(w, gzdName) == gzdName \notin w.vm.pendingGZDs

notPending100kmSquare(w, squareId) == squareId \notin w.vm.pending100kmSquares

\* The squares of a cached GZD that intersect the viewport, in stored order.
visibleOf(squares, viewport) ==
    SelectSeq(squares,
        LAMBDA sq : bboxIntersects(sq.coordinates, viewport.west, viewport.south,
                                   viewport.east, viewport.north))

RECURSIVE update100kmLoop(_, _, _, _, _)
update100kmLoop(w, viewport, i, processedGZDs, visibleSquares) ==
    IF w.threw THEN w
    ELSE IF i > Len(w.store.gzdData.features)
    THEN setVisible100kmSquares(w, visibleSquares)
    ELSE
      LET feature == w.store.gzdData.features[i]
          gzdName == feature.gzd
          processed == processedGZDs \cup {gzdName}
      IN  IF gzdName \in processedGZDs
          THEN update100kmLoop(w, viewport, i + 1, processedGZDs, visibleSquares)
          ELSE IF ~ bboxIntersects(feature.coordinates, viewport.west, viewport.south,
                                   viewport.east, viewport.north)
          THEN update100kmLoop(w, viewport, i + 1, processed, visibleSquares)
          ELSE IF hasCachedSquares(w, gzdName)
          THEN update100kmLoop(w, viewport, i + 1, processed,
                    visibleSquares \o visibleOf(w.store.squares100km[gzdName], viewport))
          ELSE IF notPendingGZD(w, gzdName)
          THEN update100kmLoop(
                    requestGenerate100km(
                        [w EXCEPT !.vm.pendingGZDs = @ \cup {gzdName}],
                        [gzd |-> gzdName, zone |-> feature.zone, band |-> feature.band,
                         hemisphere |-> Hemisphere(feature.band),
                         bounds |-> feature.coordinates],
                        Callback("vm", viewport, gzdName, 0)),
                    viewport, i + 1, processed, visibleSquares)
          ELSE update100kmLoop(w, viewport, i + 1, processed, visibleSquares)

update100kmSquares(w, viewport) ==
    IF w.store.gzdData.isNull THEN w
    ELSE update100kmLoop(w, viewport, 1, {}, << >>)

\* Lines 101-124: all cached squares of visible GZDs that intersect the viewport.
RECURSIVE collectVisible100km(_, _, _, _)
collectVisible100km(w, viewport, i, processedGZDs) ==
    IF i > Len(w.store.gzdData.features) THEN << >>
    ELSE
      LET feature == w.store.gzdData.features[i]
          gzdName == feature.gzd
      IN  IF gzdName \in processedGZDs
          THEN collectVisible100km(w, viewport, i + 1, processedGZDs)
          ELSE
            (IF /\ bboxIntersects(feature.coordinates, viewport.west, viewport.south,
                                  viewport.east, viewport.north)
                /\ hasCachedSquares(w, gzdName)
             THEN visibleOf(w.store.squares100km[gzdName], viewport)
             ELSE << >>)
            \o collectVisible100km(w, viewport, i + 1, processedGZDs \cup {gzdName})

RECURSIVE update10kmLoop(_, _, _, _, _)
update10kmLoop(w, viewport, squares, i, visible10kmGrids) ==
    IF w.threw THEN w
    ELSE IF i > Len(squares)
    THEN setVisible10kmGrids(w, visible10kmGrids)
    ELSE
      LET square == squares[i]
          squareId == square.id
          w1 == [w EXCEPT !.vm.pending100kmSquares = @ \cup {squareId}]
          c == Chars(squareId)
      IN  IF hasCachedGrids(w, squareId)
          THEN update10kmLoop(w, viewport, squares, i + 1,
                              visible10kmGrids \o w.store.grids10km[squareId])
          ELSE IF notPending100kmSquare(w, squareId)
          THEN IF ~ MatchZoneBand(squareId)
               THEN update10kmLoop(w1, viewport, squares, i + 1, visible10kmGrids)
               ELSE update10kmLoop(
                        requestGenerate10km(w1,
                            [squareId |-> squareId, zone |-> parseInt(c[1], c[2]),
                             hemisphere |-> Hemisphere(c[3]),
                             bounds |-> square.coordinates],
                            Callback("vm", viewport, squareId, 0),
                            TRUE,
                            Callback("vm", viewport, squareId, 0)),
                        viewport, squares, i + 1, visible10kmGrids)
          ELSE update10kmLoop(w, viewport, squares, i + 1, visible10kmGrids)

update10kmGrids(w, viewport) ==
    IF w.store.gzdData.isNull THEN w
    ELSE update10kmLoop(w, viewport, collectVisible100km(w, viewport, 1, {}), 1, << >>)

onViewportChange(w, viewport) ==
    LET w1 == IF viewport.zoom >= 5 THEN update100kmSquares(w, viewport) ELSE w
        w2 == IF w1.threw THEN w1
              ELSE IF viewport.zoom >= 8 THEN update10kmGrids(w1, viewport) ELSE w1
    IN  IF w2.threw THEN w2 ELSE setViewportBounds(w2, viewport)

clearPending(w) ==
    [w EXCEPT !.vm.pendingGZDs = {}, !.vm.pending100kmSquares = {}]

-----------------------------------------------------------------------------
(* The self-caching layers (src/unnamed/part_006, src/unnamed/part_008):   *)
(* each keeps its own squares100kmCache and pendingGZDs and requests from  *)
(* the singleton pool.                                                     *)

RECURSIVE getVisible100kmSquaresLoop(_, _, _, _, _)
getVisible100kmSquaresLoop(w, layer, viewport, i, processedGZDs) ==
    IF w.threw \/ i > Len(GzdFeatures) THEN w
    ELSE
      LET feature == GzdFeatures[i]
          gzdName == feature.gzd
          processed == processedGZDs \cup {gzdName}
      IN  IF gzdName \in processedGZDs
          THEN getVisible100kmSquaresLoop(w, layer, viewport, i + 1, processedGZDs)
          ELSE IF ~ bboxIntersects(feature.coordinates, viewport.west, viewport.south,
                                   viewport.east, viewport.north)
          THEN getVisible100kmSquaresLoop(w, layer, viewport, i + 1, processed)
          ELSE IF MapHas(w.layers[layer].squares100kmCache, gzdName)
          THEN getVisible100kmSquaresLoop(w, layer, viewport, i + 1, processed)
          ELSE IF gzdName \notin w.layers[layer].pendingGZDs
          THEN getVisible100kmSquaresLoop(
                    requestGenerate100km(
                        [w EXCEPT !.layers[layer].pendingGZDs = @ \cup {gzdName}],
                        [gzd |-> gzdName, zone |-> feature.zone, band |-> feature.band,
                         hemisphere |-> Hemisphere(feature.band),
                         bounds |-> feature.coordinates],
                        Callback(layer, NoViewport, gzdName, 0)),
                    layer, viewport, i + 1, processed)
          ELSE getVisible100kmSquaresLoop(w, layer, viewport, i + 1, processed)

\* The features a layer's getVisible100kmSquares returns.
RECURSIVE layerVisible100km(_, _, _, _, _)
layerVisible100km(w, layer, viewport, i, processedGZDs) ==
    IF i > Len(GzdFeatures) THEN << >>
    ELSE
      LET feature == GzdFeatures[i]
          gzdName == feature.gzd
      IN  IF gzdName \in processedGZDs
          THEN layerVisible100km(w, layer, viewport, i + 1, processedGZDs)
          ELSE
            (IF /\ bboxIntersects(feature.coordinates, viewport.west, viewport.south,
                                  viewport.east, viewport.north)
                /\ MapHas(w.layers[layer].squares100kmCache, gzdName)
             THEN visibleOf(w.layers[layer].squares100kmCache[gzdName], viewport)
             ELSE << >>)
            \o layerVisible100km(w, layer, viewport, i + 1, processedGZDs \cup {gzdName})

getVisible100kmSquares(w, layer, viewport) ==
    getVisible100kmSquaresLoop(w, layer, viewport, 1, {})

RECURSIVE getVisible10kmGridsLoop(_, _, _)
getVisible10kmGridsLoop(w, squares, i) ==
    IF w.threw \/ i > Len(squares) THEN w
    ELSE
      LET square == squares[i]
          squareId == square.id
          w1 == [w EXCEPT !.layers["grid10km"].pending10kmSquares = @ \cup {squareId}]
          c == Chars(squareId)
      IN  IF MapHas(w.layers["grid10km"].grid10kmCache, squareId)
          THEN getVisible10kmGridsLoop(w, squares, i + 1)
          ELSE IF squareId \notin w.layers["grid10km"].pending10kmSquares
          THEN IF ~ MatchZoneBand(squareId)
               THEN getVisible10kmGridsLoop(w1, squares, i + 1)
               ELSE getVisible10kmGridsLoop(
                        requestGenerate10km(w1,
                            [squareId |-> squareId, zone |-> parseInt(c[1], c[2]),
                             hemisphere |-> Hemisphere(c[3]),
                             bounds |-> square.coordinates],
                            Callback("grid10km", NoViewport, squareId, 0),
                            TRUE,
                            Callback("grid10km", NoViewport, squareId, 0)),
                        squares, i + 1)
          ELSE getVisible10kmGridsLoop(w, squares, i + 1)

getVisible10kmGrids(w, viewport) ==
    LET w1 == getVisible100kmSquares(w, "grid10km", viewport)
    IN  getVisible10kmGridsLoop(w1, layerVisible100km(w1, "grid10km", viewport, 1, {}), 1)

-----------------------------------------------------------------------------
(* The callbacks handed to the pool, by the object that made them.         *)

Invoked(w, kind, callback) ==
    [w EXCEPT !.ev.invoked = Append(@, [kind |-> kind, callback |-> callback])]

\* The callback a re-entrant result callback passes with its new request for
\* the same key.
FollowUp(callback) == Callback("caller", NoViewport, callback.key, callback.id + 1)

\* viewportManager.ts 73-79; part_006 70-74; part_008 71-75; a caller's
\* callback that requests its key again
callback100km(w0, callback, response) ==
    LET w == Invoked(w0, "generate-100km-result", callback)
    IN  CASE callback.owner = "vm" ->
               update100kmSquares(
                   [setSquares100km(w, response.key, response.features)
                       EXCEPT !.vm.pendingGZDs = @ \ {response.key}],
                   callback.viewport)
          [] callback.owner \in {"grid100km", "grid10km"} ->
               [w EXCEPT !.layers[callback.owner].squares100kmCache =
                              MapSet(@, response.key, response.features),
                         !.layers[callback.owner].pendingGZDs = @ \ {response.key}]
          [] callback.owner = "reentrant" ->
               requestGenerate100km(w, callback.request, FollowUp(callback))
          [] OTHER -> w

\* viewportManager.ts 162-168; part_008 116-120
callback10km(w0, callback, response) ==
    LET w == Invoked(w0, "generate-10km-result", callback)
    IN  CASE callback.owner = "vm" ->
               update10kmGrids(
                   [setGrids10km(w, response.key, response.features)
                       EXCEPT !.vm.pending100kmSquares = @ \ {response.key}],
                   callback.viewport)
          [] callback.owner = "grid10km" ->
               [w EXCEPT !.layers["grid10km"].grid10kmCache =
                              MapSet(@, response.key, response.features),
                         !.layers["grid10km"].pending10kmSquares = @ \ {response.key}]
          [] callback.owner = "reentrant" ->
               requestGenerate10km(w, callback.request, FollowUp(callback), FALSE,
                                   FollowUp(callback))
          [] OTHER -> w

\* viewportManager.ts 169-172; part_008 121-123: the closure's own squareId
errorCallback10km(w0, callback) ==
    LET w == Invoked(w0, "generate-10km-error", callback)
    IN  CASE callback.owner = "vm" ->
               [w EXCEPT !.vm.pending100kmSquares = @ \ {callback.key}]
          [] callback.owner = "grid10km" ->
               [w EXCEPT !.layers["grid10km"].pending10kmSquares = @ \ {callback.key}]
          [] OTHER -> w

-----------------------------------------------------------------------------
(* worker.onmessage of the pool (WorkerPool.ts 26-60).                     *)

\* A handler that leaves the 100 km callback registered after invoking it.
keepCallback100km(w, key) == w

deleteCallback100km(w, key) ==
    [w EXCEPT !.pool.generate100kmCallbacks = MapDelete(@, key)]

deleteCallback10km(w, key) ==
    [w EXCEPT !.pool.generate10kmCallbacks = MapDelete(@, key)]

onmessage(w, message) ==
    CASE message.type = "generate-100km-result" ->
           IF MapHas(w.pool.generate100kmCallbacks, message.key)
           THEN LET w1 == callback100km([w EXCEPT !.ev.hadCallback = TRUE],
                                        w.pool.generate100kmCallbacks[message.key], message)
                IN  IF w1.threw THEN w1 ELSE deleteCallback100km(w1, message.key)
           ELSE w
      [] message.type = "generate-10km-result" ->
           IF MapHas(w.pool.generate10kmCallbacks, message.key)
           THEN LET w1 == callback10km([w EXCEPT !.ev.hadCallback = TRUE],
                                       w.pool.generate10kmCallbacks[message.key], message)
                IN  IF w1.threw THEN w1 ELSE deleteCallback10km(w1, message.key)
           ELSE w
      [] message.type = "generate-10km-error" ->
           LET w1 == IF MapHas(w.pool.generate10kmErrorCallbacks, message.key)
                     THEN errorCallback10km([w EXCEPT !.ev.hadCallback = TRUE],
                              w.pool.generate10kmErrorCallbacks[message.key])
                     ELSE w
           IN  [w1 EXCEPT !.pool.generate10kmCallbacks = MapDelete(@, message.key),
                          !.pool.generate10kmErrorCallbacks = MapDelete(@, message.key)]
      [] OTHER -> w

-----------------------------------------------------------------------------
(* self.onmessage of the worker (mgrs.worker.ts 288-345): the message the  *)
(* worker posts back for a request, when generation returns and when it    *)
(* throws.                                                                 *)

Message(type, key, features) == [type |-> type, key |-> key, features |-> features]

\* A worker that answers every 100 km request under the key 31N.
processGenerate100kmAs31N(request) ==
    Message("generate-100km-result", "31N",
            generate100kmSquaresForGZD(request.zone, request.band))

processGenerate100km(request) ==
    Message("generate-100km-result", request.gzd,
            generate100kmSquaresForGZD(request.zone, request.band))

workerReply(request, throws) ==
    CASE request.type = "generate-100km" ->
           IF throws THEN Message("error", "", << >>)
           ELSE processGenerate100km(request.payload)
      [] request.type = "generate-10km" ->
           IF throws THEN Message("generate-10km-error", request.payload.squareId, << >>)
           ELSE Message("generate-10km-result", request.payload.squareId,
                        generate10kmGridForSquare(request.payload.squareId))

-----------------------------------------------------------------------------
(* The state after construction, and the steps.                            *)

\* No pure function is under study.
NoCall == [fn |-> "none"]

NoLayerState ==
    [squares100kmCache |-> EmptyMap, pendingGZDs |-> {},
     grid10kmCache |-> EmptyMap, pending10kmSquares |-> {}]

Init ==
    /\ pool = [workers |-> PoolSize, nextWorkerIndex |-> 0,
               generate100kmCallbacks |-> EmptyMap,
               generate10kmCallbacks |-> EmptyMap,
               generate10kmErrorCallbacks |-> EmptyMap]
    /\ queues = [i \in 0..(PoolSize - 1) |-> << >>]
    /\ vm = [pendingGZDs |-> {}, pending100kmSquares |-> {}]
    /\ store = [gzdData |-> [isNull |-> TRUE, features |-> << >>],
                squares100km |-> EmptyMap, grids10km |-> EmptyMap,
                visible100kmSquares |-> << >>, visible10kmGrids |-> << >>,
                viewportBounds |-> << >>]
    /\ layers = [grid100km |-> NoLayerState, grid10km |-> NoLayerState]
    /\ currentViewport = NoViewport
    /\ ev = NoEvent
    /\ call = NoCall

\* store.setGzdData(data): the root boundary set is loaded once.
SetGzdData ==
    /\ store.gzdData.isNull
    /\ Commit([Begin("setGzdData", "", "") EXCEPT
                 !.store.gzdData = [isNull |-> FALSE, features |-> GzdFeatures]])
    /\ UNCHANGED currentViewport

\* deck.gl reports a viewport change: getViewportManager().onViewportChange(v)
ViewportChange(v) ==
    /\ Commit(onViewportChange(Begin("onViewportChange", "", ""), v))
    /\ currentViewport' = v

\* Worker i takes its oldest request, generates (or throws), posts its reply,
\* and the pool's onmessage handles the reply.
WorkerStep(i, throws) ==
    /\ queues[i] # << >>
    /\ LET request == Head(queues[i])
           reply == workerReply(request, throws)
           w0 == [Begin(reply.type, request.key, IF throws THEN "threw" ELSE "returned")
                     EXCEPT !.queues[i] = Tail(@), !.ev.stale = request.preClear,
                            !.ev.nFeatures = Len(reply.features)]
       IN  Commit(onmessage(w0, reply))
    /\ UNCHANGED currentViewport

Next ==
    \/ SetGzdData
    \/ \E v \in Viewports : ViewportChange(v)
    \/ \E i \in DOMAIN queues, throws \in BOOLEAN : WorkerStep(i, throws)

Spec == Init /\ [][Next]_vars

-----------------------------------------------------------------------------
(* The same system with the two reset operations the code offers:          *)
(* store.clearAll() and ViewportManager.clearPending().                    *)

MaxQueued == 1

\* The viewports of this specification: one below the 100 km level, one at
\* the 10 km level that sees two GZDs.
ClearViewports == { Viewport(4, 1, 1, 2, 2), Viewport(8, 2, 1, 7, 2) }

TotalQueued == Cardinality(UNION { { <<i, j>> : j \in DOMAIN queues[i] } : i \in DOMAIN queues })

\* store.clearAll(); the requests posted before it are marked in the history.
ClearAll ==
    /\ Commit([clearAll(Begin("clearAll", "", "")) EXCEPT
                 !.queues = [i \in DOMAIN @ |->
                               [j \in DOMAIN @[i] |-> [@[i][j] EXCEPT !.preClear = TRUE]]]])
    /\ UNCHANGED currentViewport

\* getViewportManager().clearPending()
ClearPending ==
    /\ Commit(clearPending(Begin("clearPending", "", "")))
    /\ UNCHANGED currentViewport

NextClear ==
    \/ SetGzdData
    \/ \E v \in ClearViewports : TotalQueued <= MaxQueued /\ ViewportChange(v)
    \/ \E i \in DOMAIN queues, throws \in BOOLEAN : WorkerStep(i, throws)
    \/ ClearAll
    \/ ClearPending

SpecClear == Init /\ [][NextClear]_vars

-----------------------------------------------------------------------------
(* The pool on its own: callers that request by key with callbacks of      *)
(* their own, workers that answer, replies that arrive late or for a key   *)
(* nobody asked for, and terminate().                                      *)

PoolGzds == {"31N", "5Q"}

PoolSquares == {"31NAA"}

CallbackIds == {1, 2}

GzdFeature(gzd) == GzdFeatures[CHOOSE i \in DOMAIN GzdFeatures : GzdFeatures[i].gzd = gzd]

CallerRequest100km(gzd, id) ==
    /\ TotalQueued <= MaxQueued
    /\ Commit(requestGenerate100km(
                 Begin("requestGenerate100km", gzd, ""),
                 [gzd |-> gzd, zone |-> GzdFeature(gzd).zone, band |-> GzdFeature(gzd).band,
                  hemisphere |-> Hemisphere(GzdFeature(gzd).band),
                  bounds |-> GzdFeature(gzd).coordinates],
                 Callback("caller", NoViewport, gzd, id)))
    /\ UNCHANGED currentViewport

CallerRequest10km(squareId, id, hasOnError) ==
    /\ TotalQueued <= MaxQueued
    /\ Commit(requestGenerate10km(
                 Begin("requestGenerate10km", squareId, ""),
                 [squareId |-> squareId,
                  zone |-> parseInt(Chars(squareId)[1], Chars(squareId)[2]),
                  hemisphere |-> Hemisphere(Chars(squareId)[3]),
                  bounds |-> << >>],
                 Callback("caller", NoViewport, squareId, id),
                 hasOnError,
                 Callback("caller", NoViewport, squareId, id)))
    /\ UNCHANGED currentViewport

\* A message event whose reply matches no request still queued: a late or
\* repeated reply, or one for a key that was never requested.
StrayMessage(type, key) ==
    /\ Commit(onmessage(Begin(type, key, "stray"), Message(type, key, << >>)))
    /\ UNCHANGED currentViewport

Terminate ==
    /\ Commit(terminate(Begin("terminate", "", "")))
    /\ UNCHANGED currentViewport

NextPool ==
    \/ \E g \in PoolGzds, id \in CallbackIds : CallerRequest100km(g, id)
    \/ \E s \in PoolSquares, id \in CallbackIds, hasOnError \in BOOLEAN :
          CallerRequest10km(s, id, hasOnError)
    \/ \E i \in DOMAIN queues, throws \in BOOLEAN : WorkerStep(i, throws)
    \/ \E g \in PoolGzds : StrayMessage("generate-100km-result", g)
    \/ \E s \in PoolSquares, type \in {"generate-10km-result", "generate-10km-error"} :
          StrayMessage(type, s)
    \/ Terminate

SpecPool == Init /\ [][NextPool]_vars

-----------------------------------------------------------------------------
(* The self-caching layers under MGRSLayer (src/unnamed/part_009): the     *)
(* 100 km layer is rendered from zoom 5, the 10 km layer from zoom 8.      *)

\* The viewports of this specification: the 100 km and the 10 km level over
\* one GZD.
LayerViewports == { Viewport(5, 1, 1, 2, 2), Viewport(8, 1, 1, 2, 2) }

SetViewport(v) ==
    /\ currentViewport' = v
    /\ ev' = Event("viewport", "", "")
    /\ UNCHANGED <<pool, queues, vm, store, layers, call>>

\* Grid100kmLayer.renderLayers
RenderGrid100km ==
    /\ currentViewport.zoom >= 5
    /\ Commit(getVisible100kmSquares(Begin("render100km", "", ""), "grid100km", currentViewport))
    /\ UNCHANGED currentViewport

\* Grid10kmLayer.renderLayers
RenderGrid10km ==
    /\ currentViewport.zoom >= 8
    /\ Commit(getVisible10kmGrids(Begin("render10km", "", ""), currentViewport))
    /\ UNCHANGED currentViewport

NextLayers ==
    \/ \E v \in LayerViewports : SetViewport(v)
    \/ RenderGrid100km
    \/ RenderGrid10km
    \/ \E i \in DOMAIN queues, throws \in BOOLEAN : WorkerStep(i, throws)

SpecLayers == Init /\ [][NextLayers]_vars

-----------------------------------------------------------------------------
(* Vocabulary of the properties.                                           *)

GzdNames == { GzdFeatures[i].gzd : i \in DOMAIN GzdFeatures }

SquareIds ==
    UNION { { generate100kmSquaresForGZD(GzdFeatures[i].zone, GzdFeatures[i].band)[j].id :
                j \in DOMAIN generate100kmSquaresForGZD(GzdFeatures[i].zone, GzdFeatures[i].band) } :
            i \in DOMAIN GzdFeatures }

\* The requests of one kind and key that are posted and not yet answered.
QueuePositions == UNION { { <<i, j>> : j \in DOMAIN queues[i] } : i \in DOMAIN queues }

Outstanding(type, key) ==
    Cardinality({ p \in QueuePositions :
                    /\ queues[p[1]][p[2]].type = type
                    /\ queues[p[1]][p[2]].key = key })

\* How many requests of one kind and key the last step posted.
PostedNow(type, key) ==
    Cardinality({ j \in DOMAIN ev.posted : ev.posted[j] = [type |-> type, key |-> key] })

Intersects(coords, viewport) ==
    bboxIntersects(coords, viewport.west, viewport.south, viewport.east, viewport.north)

\* The GZD names the viewport needs: a root boundary intersects it.
VisibleGzds(viewport) ==
    { GzdFeatures[i].gzd : i \in { n \in DOMAIN GzdFeatures :
                                     Intersects(GzdFeatures[n].coordinates, viewport) } }

\* The cached 100 km features of visible GZDs that intersect the viewport.
VisibleCachedSquares(viewport) ==
    collectVisible100km([store |-> store], viewport, 1, {})

VisibleCachedSquareIds(viewport) ==
    { VisibleCachedSquares(viewport)[j].id : j \in DOMAIN VisibleCachedSquares(viewport) }

-----------------------------------------------------------------------------
-----------------------------------------------------------------------------
\* C3: when generation in the worker throws, the failure reaches the
\* controller and the key leaves the controller's pending set (for 100 km
\* requests keyed by GZD and for 10 km requests keyed by square id alike).
C3_ErrorClearsPending ==
    ev.outcome = "threw" =>
        /\ ev.key \notin vm.pendingGZDs
        /\ ev.key \notin vm.pending100kmSquares

-----------------------------------------------------------------------------
\* C5: zoom-to-precision.  Whenever the ViewportManager posts a request, the
\* zoom of the viewport most recently passed to onViewportChange is at least
\* 5 for a 100 km request and at least 8 for a 10 km request.
C5_ZoomToPrecision ==
    \A j \in DOMAIN ev.posted :
        /\ ev.posted[j].type = "generate-100km" => currentViewport.zoom >= 5
        /\ ev.posted[j].type = "generate-10km" => currentViewport.zoom >= 8

-----------------------------------------------------------------------------
\* C6: after every onViewportChange at zoom >= 5 and after every 100 km
\* result callback, store.visible100kmSquares is exactly the cached 100 km
\* features whose parent GZD box and own box intersect the most recent
\* viewport passed to onViewportChange.
C6_SurfacedFollowsViewport ==
    (  (ev.op = "onViewportChange" /\ currentViewport.zoom >= 5)
    \/ (ev.op = "generate-100km-result" /\ ev.hadCallback) ) =>
        store.visible100kmSquares = VisibleCachedSquares(currentViewport)

-----------------------------------------------------------------------------
\* C10: a result that carries an empty feature list does not leave its key
\* resolved (in the cache), so that a later viewport pass requests it again.
C10_EmptyResultNotResolved ==
    (  ev.op \in {"generate-100km-result", "generate-10km-result"}
    /\ ev.hadCallback /\ ev.nFeatures = 0 ) =>
        /\ ev.key \notin DOMAIN store.squares100km
        /\ ev.key \notin DOMAIN store.grids10km

-----------------------------------------------------------------------------
\* C2: WorkerPool delivery.  A result message invokes the callback
\* registered for its key exactly once and removes it, touching nothing else
\* in the pool; a result for a key with no registered callback (a late
\* result, or a key never requested) invokes nothing, raises nothing and
\* leaves every pool map unchanged.
ResultDelivery(type, map) ==
    ev'.op = type =>
        IF ev'.key \in DOMAIN pool[map]
        THEN /\ ev'.invoked = << [kind |-> type, callback |-> pool[map][ev'.key]] >>
             /\ pool' = [pool EXCEPT ![map] = MapDelete(@, ev'.key)]
             /\ ~ ev'.threw
        ELSE /\ ev'.invoked = << >>
             /\ pool' = pool
             /\ ~ ev'.threw

C2_Delivery ==
    [][ /\ ResultDelivery("generate-100km-result", "generate100kmCallbacks")
        /\ ResultDelivery("generate-10km-result", "generate10kmCallbacks") ]_vars

\* A second 10 km result for a key whose first result was already delivered
\* (its error callback is still registered, its callback is gone), after
\* which nothing was invoked.
C2_Witness ==
    /\ ev.op = "generate-10km-result"
    /\ ~ ev.hadCallback
    /\ ev.invoked = << >>
    /\ ev.key \in DOMAIN pool.generate10kmErrorCallbacks
    /\ \E g \in PoolGzds : g \in DOMAIN pool.generate100kmCallbacks

-----------------------------------------------------------------------------
\* C4: resolved is terminal.  Once a key is in the cache, no step other than
\* clearAll removes or replaces its feature list, writes it again, or posts
\* another request for it.
StaysResolved(map, level, type) ==
    \A k \in DOMAIN store[map] :
        /\ k \in DOMAIN store'[map]
        /\ store'[map][k] = store[map][k]
        /\ \A j \in DOMAIN ev'.stored : ev'.stored[j] # [level |-> level, key |-> k]
        /\ \A j \in DOMAIN ev'.posted : ev'.posted[j] # [type |-> type, key |-> k]

-----------------------------------------------------------------------------
\* C7: after store.clearAll() both caches are empty and no key remains in the
\* controller's pending sets, and the result of a request posted before the
\* clear is not written into the cache afterwards.
C7_ClearAllResets ==
    /\ ev.op = "clearAll" =>
          /\ store.squares100km = EmptyMap
          /\ store.grids10km = EmptyMap
          /\ vm.pendingGZDs = {}
          /\ vm.pending100kmSquares = {}
    /\ ev.stale => ev.stored = << >>

-----------------------------------------------------------------------------
\* C8: after terminate() the three callback maps are empty and stay empty,
\* and no callback is invoked, whatever is requested or arrives later.
C8_Teardown ==
    pool.workers = 0 =>
        /\ pool.generate100kmCallbacks = EmptyMap
        /\ pool.generate10kmCallbacks = EmptyMap
        /\ pool.generate10kmErrorCallbacks = EmptyMap
        /\ ev.invoked = << >>

-----------------------------------------------------------------------------
\* C9: with Grid100kmLayer and Grid10kmLayer both on the singleton pool, at
\* most one 100 km request per GZD key is outstanding at any time.
C9_ProcessWideSingleFlight ==
    \A g \in GzdNames : Outstanding("generate-100km", g) <= 1

-----------------------------------------------------------------------------
\* The requests, among the n a step posted starting at worker idx, that went
\* to worker k: positions j with (idx + j - 1) mod N = k, in posting order.
PostedTo(posted, idx, k) ==
    SelectSeq([j \in DOMAIN posted |-> [j |-> j, type |-> posted[j].type, key |-> posted[j].key]],
              LAMBDA e : (idx + e.j - 1) % PoolSize = k)

\* The last n entries of a worker's queue, as (type, key) pairs.
QueueTail(q, n) ==
    [j \in 1..n |-> [type |-> q[Len(q) - n + j].type, key |-> q[Len(q) - n + j].key]]

\* C11: round-robin assignment.  The pool starts at worker 0 with N = 4
\* workers; N changes only by terminate; and every step that issues requests
\* (100 km and 10 km counted together) posts the j-th of them to worker
\* (nextWorkerIndex + j - 1) mod N and advances nextWorkerIndex by their
\* number mod N, so the i-th request issued goes to worker i mod N.
C11_RoundRobin ==
    /\ pool.workers = PoolSize /\ pool.nextWorkerIndex = 0
    /\ [][ /\ pool'.workers # pool.workers => ev'.op = "terminate"
           /\ pool.workers = PoolSize /\ pool'.workers = PoolSize =>
                 LET posted == ev'.posted
                     idx == pool.nextWorkerIndex
                 IN  /\ pool'.nextWorkerIndex = (idx + Len(posted)) % PoolSize
                     /\ posted # << >> =>
                           \A k \in 0..(PoolSize - 1) :
                              LET mine == PostedTo(posted, idx, k)
                              IN  /\ Len(queues'[k]) >= Len(mine)
                                  /\ Len(queues'[k]) - Len(mine) \in
                                         {Len(queues[k]), Len(queues[k]) - 1}
                                  /\ QueueTail(queues'[k], Len(mine)) =
                                         [j \in 1..Len(mine) |->
                                             [type |-> mine[j].type, key |-> mine[j].key]]
         ]_vars

\* A request has just been posted to the last worker and the index has
\* wrapped around to worker 0.
C11_Witness ==
    /\ ev.op \in {"requestGenerate100km", "requestGenerate10km"}
    /\ ev.posted # << >>
    /\ pool.workers = PoolSize
    /\ pool.nextWorkerIndex = 0
    /\ queues[PoolSize - 1] # << >>
    /\ queues[PoolSize - 1][Len(queues[PoolSize - 1])].key = ev.key

-----------------------------------------------------------------------------
(* generateGZDGeoJSON (src/src/utils/generateGZD.ts): the root boundary    *)
(* set, 60 zones by 20 bands with the Norway and Svalbard exceptions.      *)

LATITUDE_BANDS ==
    <<"C", "D", "E", "F", "G", "H", "J", "K", "L", "M",
      "N", "P", "Q", "R", "S", "T", "U", "V", "W", "X">>

GZDFeature(zone, band, west, south, east, north) ==
    [gzd |-> ToString(zone) \o band, zone |-> zone, band |-> band,
     coordinates |-> <<Ring(west, south, east, north)>>]

\* A generator that leaves out the band X pairs only, and draws 32V.
IsSuppressedInBandX(zone, band) == band = "X" /\ zone \in {31, 32, 34, 36}

\* The zone/band pairs the loop body leaves without pushing a feature
\* (lines 67-69, 77, 93, 109).
IsSuppressed(zone, band) ==
    \/ band = "V" /\ zone = 32
    \/ band = "X" /\ zone \in {31, 32, 34, 36}

\* One pass of the inner loop body: the features pushed for zone and band
\* index i (none or one).
GZDLoopBody(zone, i) ==
    LET west == (zone - 1) * 6 - 180
        east == zone * 6 - 180
        band == LATITUDE_BANDS[i + 1]
        south == -80 + i * 8
        north == IF band = "X" THEN 84 ELSE south + 8
    IN  IF south < -80 \/ north > 84 THEN << >>
        ELSE IF band = "V" /\ zone = 31 THEN <<GZDFeature(31, "V", 0, south, 9, north)>>
        ELSE IF IsSuppressed(zone, band) THEN << >>
        ELSE IF band = "X" /\ zone = 33 THEN <<GZDFeature(33, "X", 0, south, 12, north)>>
        ELSE IF band = "X" /\ zone = 35 THEN <<GZDFeature(35, "X", 12, south, 24, north)>>
        ELSE IF band = "X" /\ zone = 37 THEN <<GZDFeature(37, "X", 24, south, 36, north)>>
        ELSE <<GZDFeature(zone, band, west, south, east, north)>>

RECURSIVE GZDBandLoop(_, _)
GZDBandLoop(zone, i) ==
    IF i >= Len(LATITUDE_BANDS) THEN << >>
    ELSE GZDLoopBody(zone, i) \o GZDBandLoop(zone, i + 1)

RECURSIVE GZDZoneLoop(_)
GZDZoneLoop(zone) ==
    IF zone > 60 THEN << >>
    ELSE GZDBandLoop(zone, 0) \o GZDZoneLoop(zone + 1)

generateGZDGeoJSON == GZDZoneLoop(1)

\* Points of the covered range, one inside every 3 degree by one band cell:
\* every rectangle edge the generator writes is a multiple of 3 degrees of
\* longitude and a band edge of latitude.
ProbePoints ==
    { [lon |-> -180 + 3 * k + 1, lat |-> -80 + 8 * i + 1] : k \in 0..119, i \in 0..19 }

\* The program state after construction, before any call.
Constructed ==
    /\ pool = [workers |-> PoolSize, nextWorkerIndex |-> 0,
               generate100kmCallbacks |-> EmptyMap,
               generate10kmCallbacks |-> EmptyMap,
               generate10kmErrorCallbacks |-> EmptyMap]
    /\ queues = [i \in 0..(PoolSize - 1) |-> << >>]
    /\ vm = [pendingGZDs |-> {}, pending100kmSquares |-> {}]
    /\ store = [gzdData |-> [isNull |-> TRUE, features |-> << >>],
                squares100km |-> EmptyMap, grids10km |-> EmptyMap,
                visible100kmSquares |-> << >>, visible10kmGrids |-> << >>,
                viewportBounds |-> << >>]
    /\ layers = [grid100km |-> NoLayerState, grid10km |-> NoLayerState]
    /\ currentViewport = NoViewport
    /\ ev = NoEvent

InitGzd ==
    /\ Constructed
    /\ \E p \in ProbePoints :
          call = [fn |-> "generateGZDGeoJSON", done |-> FALSE, lon |-> p.lon, lat |-> p.lat,
                  containing |-> << >>]

\* The features whose rectangle contains a point, in emitted order.
Containing(features, lon, lat) ==
    SelectSeq(features, LAMBDA f : bboxIntersects(f.coordinates, lon, lat, lon, lat))

\* The root boundary set is generated and loaded into the store; the step
\* records the rectangles that contain the point under study.
LoadGzdData ==
    /\ call.fn = "generateGZDGeoJSON" /\ ~ call.done
    /\ store' = [store EXCEPT !.gzdData = [isNull |-> FALSE, features |-> generateGZDGeoJSON]]
    /\ call' = [call EXCEPT !.done = TRUE,
                            !.containing = Containing(generateGZDGeoJSON, call.lon, call.lat)]
    /\ ev' = Event("setGzdData", "", "")
    /\ UNCHANGED <<pool, queues, vm, layers, currentViewport>>

NextGzd == LoadGzdData

SpecGzd == InitGzd /\ [][NextGzd]_vars

\* The standard rectangle of a zone: 6 degrees of longitude.
StandardWest(zone) == (zone - 1) * 6 - 180

StandardEast(zone) == zone * 6 - 180

FeatureWest(f) == f.coordinates[1][1][1]

FeatureEast(f) == f.coordinates[1][2][1]

FeaturesOfBand(features, band) == SelectSeq(features, LAMBDA f : f.band = band)

SeqRange(q) == { q[j] : j \in DOMAIN q }

\* C12: generateGZDGeoJSON emits no feature for a suppressed zone/band pair;
\* the standard 6 degree range of every suppressed pair is covered, within
\* its band, by one widened neighbouring feature; and every point of
\* [-180,180) x [-80,84) lies inside some emitted GZD rectangle.
C12_ExceptionCoverage ==
    (call.fn = "generateGZDGeoJSON" /\ call.done) =>
        LET features == store.gzdData.features
        IN  /\ \A zone \in 1..60, n \in DOMAIN LATITUDE_BANDS :
                  IsSuppressed(zone, LATITUDE_BANDS[n]) =>
                     /\ \A j \in DOMAIN features :
                           ~ (features[j].zone = zone /\ features[j].band = LATITUDE_BANDS[n])
                     /\ \E f \in SeqRange(FeaturesOfBand(features, LATITUDE_BANDS[n])) :
                           /\ FeatureWest(f) <= StandardWest(zone)
                           /\ StandardEast(zone) <= FeatureEast(f)
            /\ call.containing # << >>

\* C13: in band X generateGZDGeoJSON suppresses exactly two zones and widens
\* exactly two zones, and each widened zone spans 12 degrees of longitude.
C13_NorthernmostBand ==
    (call.fn = "generateGZDGeoJSON" /\ call.done) =>
        LET bandX == SeqRange(FeaturesOfBand(store.gzdData.features, "X"))
            suppressed == { zone \in 1..60 : \A f \in bandX : f.zone # zone }
            widened == { f \in bandX : FeatureEast(f) - FeatureWest(f) # 6 }
        IN  /\ Cardinality(suppressed) = 2
            /\ Cardinality(widened) = 2
            /\ \A f \in widened : FeatureEast(f) - FeatureWest(f) = 12

-----------------------------------------------------------------------------
(* UTM zone lookup (src/src/utils/projection.ts and its copy in            *)
(* src/src/workers/mgrs.worker.ts).  Longitudes and latitudes are whole    *)
(* degrees.                                                                *)

MaxLon == 1000

RECURSIVE NormalizeUp(_)
\* while (normalizedLon < -180) normalizedLon += 360
NormalizeUp(lon) == IF lon < -180 THEN NormalizeUp(lon + 360) ELSE lon

RECURSIVE NormalizeDown(_)
\* while (normalizedLon >= 180) normalizedLon -= 360
NormalizeDown(lon) == IF lon >= 180 THEN NormalizeDown(lon - 360) ELSE lon

\* A lookup that skips the normalisation.
getUTMZoneUnnormalized(lon) == ((lon + 180) \div 6) + 1

\* projection.ts 78-86
getUTMZoneForLongitude(lon) ==
    LET normalizedLon == NormalizeDown(NormalizeUp(lon))
    IN  ((normalizedLon + 180) \div 6) + 1

\* mgrs.worker.ts 52-57
workerGetUTMZoneForLongitude(lon) ==
    LET normalizedLon == NormalizeDown(NormalizeUp(lon))
    IN  ((normalizedLon + 180) \div 6) + 1

UTMZone(zone, hemisphere) ==
    [zone |-> zone, hemisphere |-> hemisphere,
     epsg |-> IF hemisphere = "N" THEN 32600 + zone ELSE 32700 + zone]

RECURSIVE ZonesLoop(_, _, _)
\* for (let zone = minZone; zone <= maxZone; zone++)
ZonesLoop(zone, maxZone, bounds) ==
    IF zone > maxZone THEN << >>
    ELSE (IF bounds.north > 0 THEN <<UTMZone(zone, "N")>> ELSE << >>)
         \o (IF bounds.south < 0 THEN <<UTMZone(zone, "S")>> ELSE << >>)
         \o ZonesLoop(zone + 1, maxZone, bounds)

\* projection.ts 92-124
getUTMZonesForBounds(bounds) ==
    LET westZone == getUTMZoneForLongitude(bounds.west)
        eastZone == getUTMZoneForLongitude(bounds.east)
        minZone == IF westZone <= eastZone THEN westZone ELSE eastZone
        maxZone == IF westZone >= eastZone THEN westZone ELSE eastZone
    IN  ZonesLoop(minZone, maxZone, bounds)

\* mgrs.worker.ts 65-81
workerGetUTMZonesForBounds(bounds) ==
    LET westZone == workerGetUTMZoneForLongitude(bounds.west)
        eastZone == workerGetUTMZoneForLongitude(bounds.east)
        minZone == IF westZone <= eastZone THEN westZone ELSE eastZone
        maxZone == IF westZone >= eastZone THEN westZone ELSE eastZone
    IN  ZonesLoop(minZone, maxZone, bounds)

\* Longitudes handed to the zone lookup, also outside [-180,180).
Longitudes == (-MaxLon)..MaxLon

\* Geodetic boxes: west and east in [-180,180); west > east is a box that
\* crosses the antimeridian.
BoxLongitudes == {-180, -175, -91, -3, 0, 3, 90, 170, 175, 179}

BoxLatitudes == { <<-20, -10>>, <<-10, 0>>, <<-10, 10>>, <<0, 10>>, <<10, 20>> }

BoundsInputs ==
    { [west |-> w, south |-> l[1], east |-> e, north |-> l[2]] :
        w \in BoxLongitudes, e \in BoxLongitudes, l \in BoxLatitudes }

InitProjection ==
    /\ Constructed
    /\ \/ \E lon \in Longitudes :
             call = [fn |-> "getUTMZoneForLongitude", done |-> FALSE, lon |-> lon,
                     zone |-> 0, workerZone |-> 0]
       \/ \E b \in BoundsInputs :
             call = [fn |-> "getUTMZonesForBounds", done |-> FALSE, bounds |-> b,
                     zones |-> << >>, workerZones |-> << >>]

\* getUTMZoneForLongitude(lon), through both copies
ZoneForLongitude ==
    /\ call.fn = "getUTMZoneForLongitude" /\ ~ call.done
    /\ call' = [call EXCEPT !.done = TRUE,
                            !.zone = getUTMZoneForLongitude(call.lon),
                            !.workerZone = workerGetUTMZoneForLongitude(call.lon)]
    /\ UNCHANGED <<pool, queues, vm, store, layers, currentViewport, ev>>

\* getUTMZonesForBounds(bounds), through both copies
ZonesForBounds ==
    /\ call.fn = "getUTMZonesForBounds" /\ ~ call.done
    /\ call' = [call EXCEPT !.done = TRUE,
                            !.zones = getUTMZonesForBounds(call.bounds),
                            !.workerZones = workerGetUTMZonesForBounds(call.bounds)]
    /\ UNCHANGED <<pool, queues, vm, store, layers, currentViewport, ev>>

NextProjection ==
    \/ ZoneForLongitude
    \/ ZonesForBounds

SpecProjection == InitProjection /\ [][NextProjection]_vars

\* Zone z's 6 degree range [west, east) has a longitude in common with the
\* box; a box with west > east runs over the antimeridian.
ZoneOverlapsBox(zone, bounds) ==
    IF bounds.west <= bounds.east
    THEN StandardWest(zone) <= bounds.east /\ bounds.west < StandardEast(zone)
    ELSE StandardWest(zone) <= bounds.east \/ bounds.west < StandardEast(zone)

HasZone(zones, zone, hemisphere) ==
    \E j \in DOMAIN zones : zones[j].zone = zone /\ zones[j].hemisphere = hemisphere

\* C14: getUTMZonesForBounds returns every zone whose 6 degree range overlaps
\* the box from west to east, also for a box over the antimeridian, and both
\* the N and the S entry of each such zone when south < 0 < north.
C14_ZonesForBounds ==
    (call.fn = "getUTMZonesForBounds" /\ call.done) =>
        \A zone \in 1..60 :
            ZoneOverlapsBox(zone, call.bounds) =>
               /\ HasZone(call.zones, zone, "N") \/ HasZone(call.zones, zone, "S")
               /\ (call.bounds.south < 0 /\ 0 < call.bounds.north) =>
                     HasZone(call.zones, zone, "N") /\ HasZone(call.zones, zone, "S")

\* C15: for every longitude, also outside [-180,180), getUTMZoneForLongitude
\* returns an integer in 1..60 equal to floor((L + 180) / 6) + 1 with L the
\* longitude normalized into [-180,180), and the copy in the worker returns
\* the same zone.
C15_ZoneForLongitude ==
    (call.fn = "getUTMZoneForLongitude" /\ call.done) =>
        LET L == ((call.lon + 180) % 360) - 180
        IN  /\ call.zone \in 1..60
            /\ call.zone = ((L + 180) \div 6) + 1
            /\ call.workerZone = call.zone

\* The lookup has run on a longitude outside [-180,180).
C15_Witness ==
    /\ call.fn = "getUTMZoneForLongitude" /\ call.done
    /\ call.lon >= 180
    /\ call.zone = 60

-----------------------------------------------------------------------------
(* The two generation passes in detail (generate100kmSquares.ts 141-258,   *)
(* generate10kmGrid.ts 119-275).  What proj4, JSTS and mgrs.forward do with *)
(* a parent boundary and a candidate cell is an input: for every cell, how *)
(* each geometry operation the code may call on it turns out.              *)

MaxCells == 2

\* A candidate cell of the snapped grid.
\*   ring:      utmRectToWGS84Polygon / coordsToJSTSPolygon: "ok", or
\*              "ring-throws" (inner catch), or "project-throws" (outer catch)
\*   raw:       OverlayOp.intersection(parent, cell): "throws", "empty",
\*              "tiny" (area below 1e-8) or "ok"
\*   repaired:  the intersection of the operands buffered by 0
\*   enlarged:  the intersection with the parent buffered by 0.0001
\*   pieces:    polygons in an "ok" raw intersection (a MultiPolygon has 2)
\*   label:     mgrs.forward on the cell centre: "ok" or "throws"
CellKinds ==
    { c \in [ring : {"ok", "ring-throws", "project-throws"},
              raw : {"throws", "empty", "tiny", "ok"},
              repaired : {"na", "throws", "empty", "ok"},
              enlarged : {"na", "throws", "empty", "ok"},
              pieces : {1, 2},
              label : {"ok", "throws"}] :
        /\ c.ring # "ok" =>
              c.raw = "ok" /\ c.repaired = "na" /\ c.enlarged = "na" /\ c.pieces = 1 /\ c.label = "ok"
        /\ c.raw = "ok" => c.repaired = "na" /\ c.enlarged = "na"
        /\ c.raw # "ok" => c.pieces = 1 /\ c.label = "ok"
        /\ c.raw \in {"empty", "tiny"} => c.repaired = "na" /\ c.enlarged # "na"
        /\ c.raw = "throws" =>
              /\ c.repaired # "na"
              /\ (c.repaired = "empty") = (c.enlarged \in {"empty", "ok"})
              /\ c.enlarged # "throws"
        /\ c.label = "throws" => c.pieces = 1 }

CellLists == UNION { [1..n -> CellKinds] : n \in 0..MaxCells }

\* The parent boundary: its JSTS polygon can be built or not, and at least
\* one of its vertices projects to UTM or none does.
ParentKinds == {"ok", "geometry-throws", "no-vertex-projects"}

DigitChar(n) == CHOOSE d \in Digits : DigitValue(d) = n

\* A zone number as mgrs.forward prints it: no padding.
ZoneChars(zone) ==
    IF zone < 10 THEN <<DigitChar(zone)>>
    ELSE <<DigitChar(zone \div 10), DigitChar(zone % 10)>>

\* mgrs.forward(centre, accuracy) for the j-th cell of the grid: zone, band,
\* the 100 km square letters and, at accuracy 1, one easting and one
\* northing digit.  Distinct cells have distinct centres and labels.
mgrsForward(zone, band, j, accuracy) ==
    ZoneChars(zone) \o <<band>>
        \o (IF accuracy = 0 THEN <<"K", LATITUDE_BANDS[j]>> ELSE <<"K", "B">>)
        \o (IF accuracy = 1 THEN <<"1", DigitChar(j)>> ELSE << >>)

\* /^(\d{1,2})([A-Z])/ : the length of the match, 0 for none
MatchZone12Band(c) ==
    IF Len(c) >= 3 /\ c[1] \in Digits /\ c[2] \in Digits /\ c[3] \in UpperCase THEN 3
    ELSE IF Len(c) >= 2 /\ c[1] \in Digits /\ c[2] \in UpperCase THEN 2
    ELSE 0

\* /^(\d{2})([A-Z])([A-Z]{2})/ : the length of the match, 0 for none
MatchZone2BandSquare(c) ==
    IF /\ Len(c) >= 5 /\ c[1] \in Digits /\ c[2] \in Digits
       /\ c[3] \in UpperCase /\ c[4] \in UpperCase /\ c[5] \in UpperCase
    THEN 5 ELSE 0

\* string.replace(regex, '') for a regex anchored at the start
DropPrefix(c, n) == SubSeq(c, n + 1, Len(c))

\* parentId.replace(/[A-Z]{2}$/, '')
DropSquareLetters(c) ==
    IF Len(c) >= 2 /\ c[Len(c) - 1] \in UpperCase /\ c[Len(c)] \in UpperCase
    THEN SubSeq(c, 1, Len(c) - 2) ELSE c

\* cell, clippedBy and piece say where the ring came from (history only).
SquareFeature(id, squareId, gzd, clippedBy, piece, cell) ==
    [id |-> id, squareId |-> squareId, gzd |-> gzd, clippedBy |-> clippedBy,
     piece |-> piece, cell |-> cell]

\* features.push for every polygon of the intersection
PushPieces(id, squareId, gzd, clippedBy, pieces, cell) ==
    [n \in 1..pieces |-> SquareFeature(id, squareId, gzd, clippedBy, n, cell)]

NoOutput ==
    [features |-> << >>, ops |-> << >>, log |-> << >>,
     cellsAttempted |-> 0, intersectionFailures |-> 0]

\* generate100kmSquares.ts 189-253: one pass of the inner loop
Cell100km(out, zone, band, cell, j) ==
    LET gzdName == ZoneChars(zone) \o <<band>>
        mgrsString == mgrsForward(zone, band, j, 0)
        squareId == DropPrefix(mgrsString, MatchZone12Band(mgrsString))
    IN  IF cell.ring = "project-throws"
        THEN [out EXCEPT !.ops = Append(@, << >>),
                         !.log = Append(@, [kind |-> "cell-error", attemptedCells |-> 0,
                                            intersectionFailures |-> 0])]
        ELSE IF cell.ring = "ring-throws"
        THEN [out EXCEPT !.ops = Append(@, << >>)]
        ELSE IF cell.raw # "ok" \/ cell.label = "throws"
        THEN [out EXCEPT !.ops = Append(@, <<"intersection">>)]
        ELSE [out EXCEPT !.ops = Append(@, <<"intersection">>),
                         !.features = @ \o PushPieces(mgrsString, squareId, gzdName,
                                                      "parent", cell.pieces, j)]

RECURSIVE Loop100km(_, _, _, _, _)
Loop100km(out, zone, band, cells, j) ==
    IF j > Len(cells) THEN out
    ELSE Loop100km(Cell100km(out, zone, band, cells[j], j), zone, band, cells, j + 1)

\* generate100kmSquares.ts 141-258
Generate100kmPass(zone, band, parent, cells) ==
    IF parent = "geometry-throws"
    THEN [NoOutput EXCEPT !.log = <<[kind |-> "geometry-failed", attemptedCells |-> 0,
                                      intersectionFailures |-> 0]>>]
    ELSE IF parent = "no-vertex-projects" THEN NoOutput
    ELSE Loop100km(NoOutput, zone, band, cells, 1)

\* generate10kmGrid.ts 170-261: one pass of the inner loop
Cell10km(out0, zone, band, gzd, cell, j) ==
    LET out == [out0 EXCEPT !.cellsAttempted = @ + 1]
        raw == mgrsForward(zone, band, j, 1)
        m == MatchZone12Band(raw)
        mgrsString == IF m = 2 THEN <<"0">> \o raw ELSE raw
        squareDigits == DropPrefix(mgrsString, MatchZone2BandSquare(mgrsString))
        \* after the first intersection, and the repair if it threw
        first == IF cell.raw = "throws" THEN cell.repaired ELSE cell.raw
        ops1 == IF cell.raw = "throws"
                THEN <<"intersection", "buffer0", "buffer0", "intersection">>
                ELSE <<"intersection">>
        by1 == IF cell.raw = "throws" THEN "repaired" ELSE "parent"
        \* the fallback with the parent enlarged by 0.0001
        fallback == first \in {"empty", "tiny"}
        final == IF fallback
                 THEN (IF cell.enlarged = "ok" THEN "ok" ELSE "empty")
                 ELSE first
        ops2 == IF fallback THEN ops1 \o <<"buffer0.0001", "intersection">> ELSE ops1
        by2 == IF fallback THEN "enlarged" ELSE by1
    IN  IF cell.ring = "project-throws"
        THEN [out EXCEPT !.ops = Append(@, << >>),
                         !.log = Append(@, [kind |-> "cell-error", attemptedCells |-> 0,
                                            intersectionFailures |-> 0])]
        ELSE IF cell.ring = "ring-throws"
        THEN [out EXCEPT !.ops = Append(@, << >>)]
        ELSE IF first = "throws"
        THEN [out EXCEPT !.ops = Append(@, ops1), !.intersectionFailures = @ + 1]
        ELSE IF final # "ok" \/ cell.label = "throws"
        THEN [out EXCEPT !.ops = Append(@, ops2)]
        ELSE [out EXCEPT !.ops = Append(@, ops2),
                         !.features = @ \o PushPieces(mgrsString, squareDigits, gzd,
                                                      by2, cell.pieces, j)]

RECURSIVE Loop10km(_, _, _, _, _, _)
Loop10km(out, zone, band, gzd, cells, j) ==
    IF j > Len(cells) THEN out
    ELSE Loop10km(Cell10km(out, zone, band, gzd, cells[j], j), zone, band, gzd, cells, j + 1)

\* generate10kmGrid.ts 119-275
Generate10kmPass(zone, band, parentId, parent, cells) ==
    LET gzd == DropSquareLetters(parentId)
        out == Loop10km(NoOutput, zone, band, gzd, cells, 1)
    IN  IF parent = "geometry-throws"
        THEN [NoOutput EXCEPT !.log = <<[kind |-> "geometry-failed", attemptedCells |-> 0,
                                          intersectionFailures |-> 0]>>]
        ELSE IF parent = "no-vertex-projects" THEN NoOutput
        ELSE IF out.features = << >> /\ out.cellsAttempted > 0
        THEN [out EXCEPT !.log = Append(@, [kind |-> "zero-features",
                                            attemptedCells |-> out.cellsAttempted,
                                            intersectionFailures |-> out.intersectionFailures])]
        ELSE out

\* The parents the passes are run on: a single-digit and a two-digit zone.
ParentZones == { [zone |-> 5, band |-> "Q", parentId |-> <<"0", "5", "Q", "K", "B">>],
                 [zone |-> 31, band |-> "N", parentId |-> <<"3", "1", "N", "K", "B">>] }

InitGenerate ==
    /\ Constructed
    /\ \E fn \in {"generate100kmSquaresForGZD", "generate10kmGridForSquare"},
          z \in ParentZones, parent \in ParentKinds, cells \in CellLists :
          call = [fn |-> fn, done |-> FALSE, zone |-> z.zone, band |-> z.band,
                  parentId |-> z.parentId, parent |-> parent, cells |-> cells,
                  out |-> NoOutput]

\* generate100kmSquaresForGZD(zone, band, hemisphere, gzdPolygonCoords)
Generate100km ==
    /\ call.fn = "generate100kmSquaresForGZD" /\ ~ call.done
    /\ call' = [call EXCEPT !.done = TRUE,
                            !.out = Generate100kmPass(call.zone, call.band, call.parent, call.cells)]
    /\ UNCHANGED <<pool, queues, vm, store, layers, currentViewport, ev>>

\* generate10kmGridForSquare(zone, hemisphere, squarePolygonCoords, parentId)
Generate10km ==
    /\ call.fn = "generate10kmGridForSquare" /\ ~ call.done
    /\ call' = [call EXCEPT !.done = TRUE,
                            !.out = Generate10kmPass(call.zone, call.band, call.parentId,
                                                     call.parent, call.cells)]
    /\ UNCHANGED <<pool, queues, vm, store, layers, currentViewport, ev>>

NextGenerate ==
    \/ Generate100km
    \/ Generate10km

SpecGenerate == InitGenerate /\ [][NextGenerate]_vars

\* A generation pass has run.
Generated ==
    /\ call.fn \in {"generate100kmSquaresForGZD", "generate10kmGridForSquare"}
    /\ call.done

\* The cells the loop reached with a polygon built for them.
ClippedCells ==
    { j \in DOMAIN call.cells : call.parent = "ok" /\ call.cells[j].ring = "ok" }

CountOf(q, x) == Cardinality({ n \in DOMAIN q : q[n] = x })

\* The cell was emitted: some feature came from it.
Emitted(j) == \E n \in DOMAIN call.out.features : call.out.features[n].cell = j

\* C16: within the output of one generate100kmSquaresForGZD call, and of one
\* generate10kmGridForSquare call, no two features have the same id, also
\* when a cell's intersection with the parent has several polygons.
C16_IdUniqueness ==
    Generated =>
        \A a, b \in DOMAIN call.out.features :
            a # b => call.out.features[a].id # call.out.features[b].id

\* C17: in both passes, when the raw intersection of a cell with the parent
\* throws, both operands are buffered by 0 and the intersection is tried
\* once more; the cell is discarded only if that retry fails too.
C17_RepairRetryOnce ==
    Generated =>
        \A j \in ClippedCells :
            call.cells[j].raw = "throws" =>
               /\ Len(call.out.ops[j]) >= 4
               /\ SubSeq(call.out.ops[j], 1, 4) =
                      <<"intersection", "buffer0", "buffer0", "intersection">>
               /\ CountOf(call.out.ops[j], "buffer0") = 2
               /\ call.cells[j].repaired = "ok" => Emitted(j)

\* C18: a cell whose raw intersection succeeds but is empty or below 1e-8 in
\* area is discarded with no buffer operation and no further intersection
\* attempt; a buffer is applied only after an intersection attempt threw;
\* so no emitted ring is clipped by anything but the parent boundary (or its
\* repair after a throw).
C18_NoSpeculativeRepair ==
    Generated =>
        /\ \A j \in ClippedCells :
              /\ call.cells[j].raw \in {"empty", "tiny"} =>
                    call.out.ops[j] = <<"intersection">> /\ ~ Emitted(j)
              /\ \A n \in DOMAIN call.out.ops[j] :
                    call.out.ops[j][n] \in {"buffer0", "buffer0.0001"} =>
                       call.cells[j].raw = "throws"
        /\ \A n \in DOMAIN call.out.features : call.out.features[n].clippedBy # "enlarged"

\* C19: a generation call on a parent none of whose vertices projects
\* returns zero features and emits a diagnostic with an attempted-cell count
\* of 0; and every generation call that returns zero features emits a
\* diagnostic.
C19_ZeroFeatureDiagnostic ==
    Generated =>
        /\ call.parent = "no-vertex-projects" =>
              /\ call.out.features = << >>
              /\ \E n \in DOMAIN call.out.log :
                    /\ call.out.log[n].kind = "zero-features"
                    /\ call.out.log[n].attemptedCells = 0
        /\ call.out.features = << >> => call.out.log # << >>

\* C20: every id emitted by either pass begins with a two-digit zone, a band
\* letter and two square letters (what the controller's /^(\d{2})([A-Z])/
\* accepts), and a 100 km id is exactly those five characters.
C20_ZeroPaddedIds ==
    Generated =>
        \A n \in DOMAIN call.out.features :
            /\ MatchZone2BandSquare(call.out.features[n].id) = 5
            /\ call.fn = "generate100kmSquaresForGZD" => Len(call.out.features[n].id) = 5

-----------------------------------------------------------------------------
(* getZoneData (src/src/utils/mgrs-helpers.ts 19-106): the lines of a zone *)
(* clipped to the zone's longitude range.  Longitudes and latitudes are    *)
(* integers in units of half an epsilon, so that there are longitudes      *)
(* outside the zone by less than epsilon.                                  *)

MaxLines == 2

\* const epsilon = 0.000001, in model units
Epsilon == 2

\* zone.getBounds(): getMinLongitude(), getMaxLongitude()
ZoneBounds == [minLon |-> 0, maxLon |-> 10]

\* A latitude the interpolation produced: a number, or not finite when the
\* divisor lon2 - lon1 is 0.
Lat(value) == [finite |-> TRUE, value |-> value]

NotFinite == [finite |-> FALSE, value |-> 0]

\* lat1 + (lat2 - lat1) * (edge - lon1) / (lon2 - lon1)
Interpolate(lat1, lat2, edge, lon1, lon2) ==
    IF ~ lat1.finite \/ ~ lat2.finite \/ lon2 = lon1 THEN NotFinite
    ELSE Lat(lat1.value + ((lat2.value - lat1.value) * (edge - lon1)) \div (lon2 - lon1))

\* A clip that leaves the longitude where it is.
KeepLongitude(lon, minLon, maxLon) == lon

\* lines 56-62 and 65-71: the longitude of a clipped point
ClipLongitude(lon, minLon, maxLon) ==
    IF lon < minLon THEN minLon ELSE IF lon > maxLon THEN maxLon ELSE lon

\* lines 56-62 and 65-71: the latitude of a clipped point
ClipLatitude(lon, lat, otherLon, otherLat, minLon, maxLon) ==
    IF lon < minLon THEN Interpolate(lat, otherLat, minLon, lon, otherLon)
    ELSE IF lon > maxLon THEN Interpolate(lat, otherLat, maxLon, lon, otherLon)
    ELSE lat

\* lines 50-51: the line is completely outside
CompletelyOutside(lon1, lon2, minLon, maxLon) ==
    \/ lon1 < minLon - Epsilon /\ lon2 < minLon - Epsilon
    \/ lon1 > maxLon + Epsilon /\ lon2 > maxLon + Epsilon

\* lines 41-80: what the loop body pushes for one line (nothing or one path)
ClipLine(line, minLon, maxLon) ==
    IF ~ line.hasPoints THEN << >>
    ELSE IF CompletelyOutside(line.lon1, line.lon2, minLon, maxLon) THEN << >>
    ELSE LET lon1 == ClipLongitude(line.lon1, minLon, maxLon)
             lat1 == ClipLatitude(line.lon1, Lat(line.lat1), line.lon2, Lat(line.lat2),
                                  minLon, maxLon)
             \* point 2 is clipped against the already clipped point 1
             lon2 == ClipLongitude(line.lon2, minLon, maxLon)
             lat2 == ClipLatitude(line.lon2, Lat(line.lat2), lon1, lat1, minLon, maxLon)
         IN  <<[lon1 |-> lon1, lat1 |-> lat1, lon2 |-> lon2, lat2 |-> lat2, source |-> line]>>

RECURSIVE ClipLines(_, _, _, _)
ClipLines(gridLines, n, minLon, maxLon) ==
    IF n > Len(gridLines) THEN << >>
    ELSE ClipLine(gridLines[n], minLon, maxLon) \o ClipLines(gridLines, n + 1, minLon, maxLon)

\* getZoneData: grid.getLines may throw (the whole call is caught), return
\* nothing, or return lines; labels are copied when showLabels is set.
getZoneData(grid, zoneBounds, showLabels) ==
    IF grid.getLines = "throws" THEN [lines |-> << >>, labels |-> << >>]
    ELSE [lines |-> IF grid.getLines = "null" THEN << >>
                    ELSE ClipLines(grid.lines, 1, zoneBounds.minLon, zoneBounds.maxLon),
          labels |-> IF showLabels THEN grid.labels ELSE << >>]

\* Longitudes of line endpoints: far outside, outside by less than epsilon,
\* on the edges and inside.
LineLongitudes == {-3, -1, 0, 5, 10, 11, 13}

GridLines ==
    { [hasPoints |-> TRUE, lon1 |-> a, lat1 |-> 0, lon2 |-> b, lat2 |-> 6] :
        a \in LineLongitudes, b \in LineLongitudes }
    \cup { [hasPoints |-> FALSE, lon1 |-> 0, lat1 |-> 0, lon2 |-> 0, lat2 |-> 0] }

GridInputs ==
    { [getLines |-> "ok", lines |-> l, labels |-> <<[position |-> <<5, 3>>, text |-> "KB"]>>] :
        l \in UNION { [1..n -> GridLines] : n \in 0..MaxLines } }
    \cup { [getLines |-> g, lines |-> << >>, labels |-> << >>] : g \in {"null", "throws"} }

InitZoneData ==
    /\ Constructed
    /\ \E g \in GridInputs, showLabels \in BOOLEAN :
          call = [fn |-> "getZoneData", done |-> FALSE, grid |-> g, showLabels |-> showLabels,
                  result |-> [lines |-> << >>, labels |-> << >>]]

\* getZoneData(grid, zone, viewportBounds, zoom, gridType, showLabels)
GetZoneData ==
    /\ call.fn = "getZoneData" /\ ~ call.done
    /\ call' = [call EXCEPT !.done = TRUE,
                            !.result = getZoneData(call.grid, ZoneBounds, call.showLabels)]
    /\ UNCHANGED <<pool, queues, vm, store, layers, currentViewport, ev>>

NextZoneData == GetZoneData

SpecZoneData == InitZoneData /\ [][NextZoneData]_vars

\* The grid lines with both endpoints, in the order the grid returned them.
LinesWithPoints == SelectSeq(call.grid.lines, LAMBDA l : l.hasPoints)

\* Both endpoints lie beyond the same zone edge by more than epsilon.
BeyondSameEdge(l) ==
    \/ l.lon1 < ZoneBounds.minLon - Epsilon /\ l.lon2 < ZoneBounds.minLon - Epsilon
    \/ l.lon1 > ZoneBounds.maxLon + Epsilon /\ l.lon2 > ZoneBounds.maxLon + Epsilon

\* C21: for every line the grid returns for a zone, getZoneData either drops
\* it, when both endpoints are beyond the same zone edge by more than
\* epsilon, or emits it with both endpoint longitudes inside
\* [zoneMinLon, zoneMaxLon]; no emitted endpoint lies outside that range.
C21_ZoneClipping ==
    (call.fn = "getZoneData" /\ call.done /\ call.grid.getLines = "ok") =>
        LET kept == SelectSeq(LinesWithPoints, LAMBDA l : ~ BeyondSameEdge(l))
            lines == call.result.lines
        IN  /\ Len(lines) = Len(kept)
            /\ \A n \in DOMAIN lines :
                  /\ lines[n].source = kept[n]
                  /\ lines[n].lon1 \in ZoneBounds.minLon..ZoneBounds.maxLon
                  /\ lines[n].lon2 \in ZoneBounds.minLon..ZoneBounds.maxLon

\* A line with one endpoint outside the zone was emitted, clipped, and
\* another line was dropped.
C21_Witness ==
    /\ call.fn = "getZoneData" /\ call.done
    /\ Len(call.result.lines) < Len(LinesWithPoints)
    /\ \E n \in DOMAIN call.result.lines :
          /\ call.result.lines[n].source.lon1 < ZoneBounds.minLon
          /\ call.result.lines[n].lon1 = ZoneBounds.minLon
          /\ call.result.lines[n].source.lon2 > ZoneBounds.maxLon + Epsilon

-----------------------------------------------------------------------------
\* C22: key-based matching under reordering.  Whatever the order in which the
\* workers' results arrive, the features cached under a key are the ones
\* generated from the request for that key, and a result is delivered only
\* to a callback registered for its own key.
C22_KeyMatching ==
    /\ \A g \in DOMAIN store.squares100km :
          store.squares100km[g] =
              generate100kmSquaresForGZD(GzdFeature(g).zone, GzdFeature(g).band)
    /\ \A sq \in DOMAIN store.grids10km :
          store.grids10km[sq] = generate10kmGridForSquare(sq)
    /\ \A n \in DOMAIN ev.invoked : ev.invoked[n].callback.key = ev.key
    /\ \A n \in DOMAIN ev.stored : ev.stored[n].key = ev.key

\* The result for 5Q has just been stored while requests for 31N and for a
\* 10 km square are still unanswered.
C22_Witness ==
    /\ ev.op = "generate-100km-result" /\ ev.key = "5Q"
    /\ "5Q" \in DOMAIN store.squares100km
    /\ store.squares100km["5Q"] # << >>
    /\ Outstanding("generate-100km", "32N") = 1
    /\ Outstanding("generate-10km", "31NAA") = 1

-----------------------------------------------------------------------------
\* C23: filtering never changes what is stored.  A viewport evaluation that
\* is not a result delivery leaves the squares100km and grids10km maps (and
\* the root boundary set) as they were; of the store only the visible lists
\* and viewportBounds may change.
C23_FilteringFrame ==
    [][ ev'.op = "onViewportChange" =>
           /\ store'.squares100km = store.squares100km
           /\ store'.grids10km = store.grids10km
           /\ store'.gzdData = store.gzdData ]_vars

\* A viewport evaluation at the 10 km level has filtered cached squares and
\* cached grids into the visible lists, leaving out the cached squares of 5Q.
C23_Witness ==
    /\ ev.op = "onViewportChange"
    /\ currentViewport.zoom >= 8
    /\ store.visible100kmSquares # << >>
    /\ store.visible10kmGrids # << >>
    /\ "5Q" \in DOMAIN store.squares100km
    /\ \A n \in DOMAIN store.visible100kmSquares : store.visible100kmSquares[n].gzd = "31N"

-----------------------------------------------------------------------------
\* C24: pending implies in flight.  Every square id in the controller's
\* 10 km pending set has a 10 km request posted to a worker that is not yet
\* answered, so that an id failing the two-digit zone/band check is never
\* left pending.
C24_PendingInFlight ==
    \A squareId \in vm.pending100kmSquares :
        /\ Outstanding("generate-10km", squareId) >= 1
        /\ MatchZoneBand(squareId)

-----------------------------------------------------------------------------
(* The controller under a viewport that is reported once and then held:    *)
(* Grid100kmLayer.shouldUpdateState calls onViewportChange only when       *)
(* changeFlags.viewportChanged, so a fixed viewport brings no further      *)
(* call; the workers answer every request with its result.                 *)

\* The viewports that can be held: the 10 km level and above, over one or two
\* GZDs.
HeldViewports ==
    { Viewport(zoom, b[1], b[2], b[3], b[4]) :
        zoom \in {8, 9, 10, 11, 12},
        b \in { <<2, 1, 7, 2>>, <<1, 1, 2, 2>>, <<4, 1, 5, 2>>,
                <<7, 1, 8, 2>>, <<-155, 17, -154, 18>> } }

\* shouldUpdateState with changeFlags.viewportChanged, once.
HoldViewport(v) ==
    /\ currentViewport = NoViewport
    /\ ViewportChange(v)

\* A worker that answers: generation returns.
WorkerAnswers(i) == WorkerStep(i, FALSE)

NextHeld ==
    \/ SetGzdData
    \/ \E v \in HeldViewports : HoldViewport(v)
    \/ \E i \in DOMAIN queues : WorkerAnswers(i)

\* Every worker that has a request eventually answers it.
FairHeld == \A i \in 0..(PoolSize - 1) : WF_vars(WorkerAnswers(i))

SpecHeld == Init /\ [][NextHeld]_vars /\ FairHeld

\* C25: 10 km progress without further input.  With the viewport held at
\* zoom >= 8 after a single onViewportChange and workers answering every
\* request, every cached 100 km square of a visible GZD that intersects the
\* viewport eventually has its 10 km request dispatched (it is posted, or its
\* grid has already been delivered).
C25_TenKmProgress ==
    \A id \in SquareIds :
        (currentViewport.zoom >= 8 /\ id \in VisibleCachedSquareIds(currentViewport))
            ~> (Outstanding("generate-10km", id) >= 1 \/ id \in DOMAIN store.grids10km)

-----------------------------------------------------------------------------
(* The pool with callers and workers only: every posted request is         *)
(* answered by exactly one result message.                                 *)

NextServed ==
    \/ \E g \in PoolGzds, id \in CallbackIds : CallerRequest100km(g, id)
    \/ \E s \in PoolSquares, id \in CallbackIds, hasOnError \in BOOLEAN :
          CallerRequest10km(s, id, hasOnError)
    \/ \E i \in DOMAIN queues : WorkerAnswers(i)

SpecServed == Init /\ [][NextServed]_vars /\ FairHeld

\* The last step was a request that registered callback id for the key.
Registered100km(g, id) ==
    /\ ev.op = "requestGenerate100km" /\ ev.key = g
    /\ MapHas(pool.generate100kmCallbacks, g)
    /\ pool.generate100kmCallbacks[g].id = id

Registered10km(s, id) ==
    /\ ev.op = "requestGenerate10km" /\ ev.key = s
    /\ MapHas(pool.generate10kmCallbacks, s)
    /\ pool.generate10kmCallbacks[s].id = id

\* The last step invoked callback id of the key with a result.
Served(kind, key, id) ==
    \E n \in DOMAIN ev.invoked :
        /\ ev.invoked[n].kind = kind
        /\ ev.invoked[n].callback = Callback("caller", NoViewport, key, id)

\* C26: every registered callback is served.  When each posted request is
\* answered by exactly one result, every callback passed to
\* requestGenerate100km or requestGenerate10km is eventually invoked, also
\* when two callers request one key before the first result arrives.
C26_EveryCallbackServed ==
    /\ \A g \in PoolGzds, id \in CallbackIds :
          Registered100km(g, id) ~> Served("generate-100km-result", g, id)
    /\ \A s \in PoolSquares, id \in CallbackIds :
          Registered10km(s, id) ~> Served("generate-10km-result", s, id)

-----------------------------------------------------------------------------
(* The pool with callers whose result callback requests its key again on   *)
(* the same pool (a retry or refresh issued from inside the callback).     *)

\* A closure that captured its request and issues it again when invoked.
ReentrantCallback(request, key) ==
    [owner |-> "reentrant", viewport |-> NoViewport, key |-> key, id |-> 1,
     request |-> request]

Request100km(gzd) ==
    [gzd |-> gzd, zone |-> GzdFeature(gzd).zone, band |-> GzdFeature(gzd).band,
     hemisphere |-> Hemisphere(GzdFeature(gzd).band),
     bounds |-> GzdFeature(gzd).coordinates]

Request10km(squareId) ==
    [squareId |-> squareId,
     zone |-> parseInt(Chars(squareId)[1], Chars(squareId)[2]),
     hemisphere |-> Hemisphere(Chars(squareId)[3]),
     bounds |-> << >>]

ReentrantRequest100km(gzd) ==
    /\ TotalQueued <= MaxQueued
    /\ Commit(requestGenerate100km(
                 Begin("requestGenerate100km", gzd, ""),
                 Request100km(gzd),
                 ReentrantCallback(Request100km(gzd), gzd)))
    /\ UNCHANGED currentViewport

ReentrantRequest10km(squareId) ==
    /\ TotalQueued <= MaxQueued
    /\ Commit(requestGenerate10km(
                 Begin("requestGenerate10km", squareId, ""),
                 Request10km(squareId),
                 ReentrantCallback(Request10km(squareId), squareId),
                 FALSE,
                 ReentrantCallback(Request10km(squareId), squareId)))
    /\ UNCHANGED currentViewport

NextReentrant ==
    \/ \E g \in PoolGzds : ReentrantRequest100km(g)
    \/ \E s \in PoolSquares : ReentrantRequest10km(s)
    \/ \E g \in PoolGzds, id \in CallbackIds : CallerRequest100km(g, id)
    \/ \E i \in DOMAIN queues : WorkerAnswers(i)

SpecReentrant == Init /\ [][NextReentrant]_vars

\* C27: a re-entrant request survives.  When the result callback for a key
\* issues a new request for that key on the same pool, the callback of the
\* new request is registered for the key once the message handler has
\* returned.
C27_ReentrantSurvives ==
    \A n \in DOMAIN ev.invoked :
        ev.invoked[n].callback.owner = "reentrant" =>
            LET callbacks == IF ev.invoked[n].kind = "generate-100km-result"
                             THEN pool.generate100kmCallbacks
                             ELSE pool.generate10kmCallbacks
            IN  /\ MapHas(callbacks, ev.key)
                /\ callbacks[ev.key] = FollowUp(ev.invoked[n].callback)

-----------------------------------------------------------------------------
\* C28: error-callback bookkeeping.  A key has an entry in
\* generate10kmErrorCallbacks only if it also has one in
\* generate10kmCallbacks, so that after a successful 10 km result for a key
\* no error callback for it remains registered.
C28_ErrorCallbackBookkeeping ==
    DOMAIN pool.generate10kmErrorCallbacks \subseteq DOMAIN pool.generate10kmCallbacks

-----------------------------------------------------------------------------
(* The controller with workers whose 100 km pass returns what the          *)
(* generator can return (generate100kmSquares.ts 214-249): the id of a     *)
(* feature is mgrs.forward of the centre of its UTM cell, one feature is   *)
(* pushed per polygon of the cell's intersection with the parent GZD, and  *)
(* properties.gzd is the parent's name.                                    *)

\* The feature lists generate100kmSquaresForGZD can return for a GZD: the
\* cells whole; for 31N, the cell AA cut into two polygons; for 32N, the part
\* east of 6 degrees of the cell whose centre mgrs.forward names 31NBA.
generate100kmPieces(zone, band) ==
    CASE zone = 31 /\ band = "N" ->
            { generate100kmSquaresForGZD(31, "N"),
              << Square("31NAA", "AA", "31N", Ring(0, 0, 3, 4)),
                 Square("31NAA", "AA", "31N", Ring(0, 4, 3, 8)),
                 Square("31NBA", "BA", "31N", Ring(3, 0, 6, 8)) >> }
      [] zone = 32 /\ band = "N" ->
            { generate100kmSquaresForGZD(32, "N"),
              << Square("31NBA", "BA", "32N", Ring(6, 0, 7, 8)) >> }
      [] OTHER -> { generate100kmSquaresForGZD(zone, band) }

PieceLists ==
    UNION { generate100kmPieces(GzdFeatures[i].zone, GzdFeatures[i].band) :
              i \in DOMAIN GzdFeatures }

\* The viewports of this specification: the 10 km level over 31N and 32N, and
\* inside 31NAA.
PieceViewports == { Viewport(8, 2, 1, 7, 2), Viewport(8, 1, 1, 2, 2) }

\* Worker i answers its oldest request; a 100 km request with one of the
\* lists the generator can return.
WorkerGenerates(i, features) ==
    /\ queues[i] # << >>
    /\ LET request == Head(queues[i])
           reply == IF request.type = "generate-100km"
                    THEN Message("generate-100km-result", request.payload.gzd, features)
                    ELSE workerReply(request, FALSE)
           w0 == [Begin(reply.type, request.key, "returned")
                     EXCEPT !.queues[i] = Tail(@), !.ev.stale = request.preClear,
                            !.ev.nFeatures = Len(reply.features)]
       IN  /\ IF request.type = "generate-100km"
              THEN features \in generate100kmPieces(request.payload.zone,
                                                    request.payload.band)
              ELSE features = << >>
           /\ Commit(onmessage(w0, reply))
    /\ UNCHANGED currentViewport

NextPieces ==
    \/ SetGzdData
    \/ \E v \in PieceViewports : ViewportChange(v)
    \/ \E i \in DOMAIN queues, features \in PieceLists : WorkerGenerates(i, features)

SpecPieces == Init /\ [][NextPieces]_vars

\* The cached 100 km features, of all GZDs.
CachedFeatures ==
    UNION { { store.squares100km[g][j] : j \in DOMAIN store.squares100km[g] } :
              g \in DOMAIN store.squares100km }

\* The 10 km requests that are posted and not yet answered.
Queued10km ==
    { queues[p[1]][p[2]] : p \in { q \in QueuePositions :
                                      queues[q[1]][q[2]].type = "generate-10km" } }

\* C29: each 100 km feature gets its own 10 km grid.  Two distinct cached
\* 100 km features (pieces of one cell, or features produced under different
\* parent GZDs) never map to the same 10 km cache key, and a 10 km request
\* posted under a key carries the boundary ring of every cached feature that
\* maps to that key.
C29_OwnGridPerFeature ==
    /\ \A f1, f2 \in CachedFeatures : f1 # f2 => f1.id # f2.id
    /\ \A q \in Queued10km : \A f \in CachedFeatures :
          f.id = q.key => q.payload.bounds = f.coordinates

-----------------------------------------------------------------------------
FeatureSouth(f) == f.coordinates[1][1][2]

FeatureNorth(f) == f.coordinates[1][3][2]

\* The features generateGZDGeoJSON draws wider than 6 degrees.
IsWidened(f) ==
    \/ f.band = "V" /\ f.zone = 31
    \/ f.band = "X" /\ f.zone \in {33, 35, 37}

\* C30: the rectangles generateGZDGeoJSON emits have pairwise disjoint
\* interiors (no point inside a 3 degree by one band cell lies in two of
\* them, and every rectangle is made of such cells within [-180,180]) and
\* pairwise distinct gzd names; each spans 8 degrees of latitude, 12 for
\* band X, between -80 and 84; each one that is not widened spans exactly
\* 6 degrees of longitude.
C30_WellFormedSet ==
    (call.fn = "generateGZDGeoJSON" /\ call.done) =>
        LET features == store.gzdData.features
        IN  /\ Len(call.containing) <= 1
            /\ Cardinality({ features[j].gzd : j \in DOMAIN features }) = Len(features)
            /\ \A j \in DOMAIN features :
                  LET f == features[j]
                  IN  /\ FeatureWest(f) % 3 = 0 /\ FeatureEast(f) % 3 = 0
                      /\ -180 <= FeatureWest(f) /\ FeatureWest(f) < FeatureEast(f)
                      /\ FeatureEast(f) <= 180
                      /\ (FeatureSouth(f) + 80) % 8 = 0
                      /\ -80 <= FeatureSouth(f) /\ FeatureNorth(f) <= 84
                      /\ FeatureNorth(f) - FeatureSouth(f) = (IF f.band = "X" THEN 12 ELSE 8)
                      /\ ~ IsWidened(f) => FeatureEast(f) - FeatureWest(f) = 6

\* The set is generated and the point under study lies in the part of the
\* widened 31V that is the standard range of the suppressed 32V.
C30_Witness ==
    /\ call.fn = "generateGZDGeoJSON" /\ call.done
    /\ call.lon > 6
    /\ Len(call.containing) = 1
    /\ call.containing[1].gzd = "31V"
    /\ Len(store.gzdData.features) > 1000

====
